---- MODULE Spec2Model ----
(***************************************************************************)
(* A model of Inquiro's two pipelines.                                     *)
(*                                                                         *)
(*   - ingestion: src/src/inquiro/core/database.py (main, the reset/update *)
(*     resolver, batched and traditional index building) and the older     *)
(*     copy src/core/populate_database.py (traditional only);              *)
(*   - query: src/src/inquiro/core/query.py (query_rag).                   *)
(*                                                                         *)
(* The document loaders, the text splitter, the embedding function, the    *)
(* FAISS store and the LLM are collaborators: their results are chosen     *)
(* nondeterministically (a load succeeds or raises, an embedding succeeds  *)
(* or raises, ...).  A FAISS index is modelled by the sequence of its      *)
(* entries, each entry being a chunk with its metadata.                    *)
(***************************************************************************)
EXTENDS Integers, Sequences, FiniteSets, TLC

(***************************************************************************)
(* Bounds of the model.                                                    *)
(***************************************************************************)
\* longest chunk sequence handed to calculate_chunk_ids on its own
MaxLen == 3
\* largest --batch-size tried
MaxBatch == 2
\* most chunks the splitter produces for one page of one file
MaxChunks == 2

(***************************************************************************)
(* Chunks and their identifiers.                                           *)
(***************************************************************************)
\* metadata.get("page") of a chunk that carries no page (DOCX/DOC sections)
NoPage == -1

\* str(page) inside the f-string: a decimal number, or "None"
FormatPage(page) == IF page = NoPage THEN "None" ELSE ToString(page)

\* current_page_id = f"{source}:{page}"
PageId(chunk) == chunk.source \o ":" \o FormatPage(chunk.page)

\* chunk_id = f"{current_page_id}:{current_chunk_index}"
ChunkId(page_id, chunk_index) == page_id \o ":" \o ToString(chunk_index)

\* chunk.metadata["id"] = chunk_id
WithId(chunk, chunk_id) ==
    [source |-> chunk.source, page |-> chunk.page, text |-> chunk.text,
     id |-> chunk_id]

\* The for loop of calculate_chunk_ids from position n on; last_page_id and
\* current_chunk_index are the loop's two locals (None is modelled by "",
\* which no page id equals).
\* NextChunkIndex with the reset of the else branch forgotten
NextChunkIndexNoReset(current_page_id, last_page_id, current_chunk_index) ==
    IF current_page_id = last_page_id
    THEN current_chunk_index + 1
    ELSE current_chunk_index

\* "if current_page_id == last_page_id: current_chunk_index += 1
\*  else: current_chunk_index = 0"
NextChunkIndex(current_page_id, last_page_id, current_chunk_index) ==
    IF current_page_id = last_page_id THEN current_chunk_index + 1 ELSE 0

RECURSIVE ChunkIdLoop(_, _, _, _)
ChunkIdLoop(chunks, n, last_page_id, current_chunk_index) ==
    IF n > Len(chunks) THEN <<>>
    ELSE LET current_page_id == PageId(chunks[n])
             index == NextChunkIndex(current_page_id, last_page_id,
                                     current_chunk_index)
         IN  <<WithId(chunks[n], ChunkId(current_page_id, index))>>
             \o ChunkIdLoop(chunks, n + 1, current_page_id, index)

calculate_chunk_ids(chunks) == ChunkIdLoop(chunks, 1, "", 0)

(***************************************************************************)
(* Strings as the prompt reads them.                                       *)
(***************************************************************************)
CharAt(s, n) == SubSeq(s, n, n)
Rest(s) == SubSeq(s, 2, Len(s))

\* str.lower() on the letters the inputs of the model use
LowerChar(c) ==
    CASE c = "R" -> "r" [] c = "U" -> "u" [] c = "E" -> "e" [] c = "S" -> "s"
      [] c = "T" -> "t" [] c = "P" -> "p" [] c = "D" -> "d" [] c = "A" -> "a"
      [] OTHER -> c

RECURSIVE Lower(_)
Lower(s) == IF s = "" THEN "" ELSE LowerChar(CharAt(s, 1)) \o Lower(Rest(s))

\* the whitespace str.strip() removes
IsSpace(c) == c \in {" ", "\t", "\n", "\r", "\f"}

RECURSIVE LStrip(_)
LStrip(s) == IF s # "" /\ IsSpace(CharAt(s, 1)) THEN LStrip(Rest(s)) ELSE s

RECURSIVE RStrip(_)
RStrip(s) ==
    IF s # "" /\ IsSpace(CharAt(s, Len(s)))
    THEN RStrip(SubSeq(s, 1, Len(s) - 1))
    ELSE s

\* str.strip()
Strip(s) == RStrip(LStrip(s))

(***************************************************************************)
(* The ingestion run: its inputs.                                          *)
(***************************************************************************)
\* DEFAULT_MEMORY_LIMIT, in MB
DEFAULT_MEMORY_LIMIT == 8000

\* process.memory_info().rss / (1024 * 1024): one reading below the default
\* limit and one above it
MemoryReadings == {100, 9000}

\* The files of DATA_PATH: name, type, and the pages the loader yields.
FileA == [name |-> "a.pdf", kind |-> "pdf", pages |-> <<0, 1>>]
FileB == [name |-> "b.pdf", kind |-> "pdf", pages |-> <<0>>]
FileC == [name |-> "c.docx", kind |-> "docx", pages |-> <<NoPage>>]
FileD == [name |-> "d.doc", kind |-> "doc", pages |-> <<NoPage>>]

\* pdf_files + docx_files + doc_files, in the order the three loops visit them
DataDirs ==
    { <<>>, <<FileB>>, <<FileC>>, <<FileA, FileB>>, <<FileB, FileC>>,
      <<FileB, FileC, FileD>> }

\* n chunks of one page, as the splitter returns them
RECURSIVE PageChunks(_, _, _)
PageChunks(source, page, n) ==
    IF n = 0 THEN <<>>
    ELSE PageChunks(source, page, n - 1)
         \o <<[source |-> source, page |-> page, text |-> "new"]>>

\* text_splitter.split_documents(loader.load()): n chunks for every page of
\* the file, pages in the loader's order
RECURSIVE DocChunksFrom(_, _, _)
DocChunksFrom(file, p, n) ==
    IF p > Len(file.pages) THEN <<>>
    ELSE PageChunks(file.name, file.pages[p], n) \o DocChunksFrom(file, p + 1, n)

DocChunks(file, n) == DocChunksFrom(file, 1, n)

\* The index directory at FAISS_PATH: absent, or holding these entries.
NoIndex == [exists |-> FALSE, entries |-> <<>>]
IndexOf(entries) == [exists |-> TRUE, entries |-> entries]

\* An index some earlier run left: one entry of a.pdf with an older text, or
\* what an earlier run over b.pdf saved.
OldEntry ==
    [source |-> "a.pdf", page |-> 0, text |-> "old", id |-> "a.pdf:0:0"]

Disks ==
    { NoIndex, IndexOf(<<OldEntry>>),
      IndexOf(calculate_chunk_ids(DocChunks(FileB, 1))) }

\* The index in memory: db = None, or a FAISS object with these entries.
None == [none |-> TRUE, entries |-> <<>>]
Faiss(entries) == [none |-> FALSE, entries |-> entries]

\* What the user may type at the prompt.
\* no line has been read (input() has not returned)
NoInput == "<no input>"

PromptInputs ==
    {"1", "r", "reset", " R ", "2", "u", "UPDATE\n", "", "3", "yes", "up"}

\* The two ingestion programs: database.py of the package, and the older
\* core/populate_database.py, which has no batched mode and only loads PDFs.
\* In traditional mode --batch-size and --memory-limit have no effect, so one
\* value of each is enough there; --optimized-memory is tried only together
\* with --traditional, where it changes the mode, and with those same values.
\* argparse takes any int for --batch-size and --memory-limit; a value
\* outside the documented range (0 for the one, -1 for the other) is tried
\* with the other option in range.
ArgSets ==
    { a \in [program : {"database", "populate_database"},
             reset : BOOLEAN, no_reset : BOOLEAN,
             optimized_memory : BOOLEAN, traditional : BOOLEAN,
             batch_size : 0..MaxBatch,
             memory_limit : {-1, 0, DEFAULT_MEMORY_LIMIT}] :
        /\ a.program = "populate_database"
              => a.traditional /\ ~a.optimized_memory
        /\ a.traditional => a.batch_size = 1 /\ a.memory_limit = 0
        /\ a.optimized_memory => a.traditional
        /\ a.batch_size = 0 => a.memory_limit = 0
        /\ a.memory_limit = -1 => a.batch_size = 1 }

\* The imports that may be missing: psutil, and the Unstructured loaders.
Envs ==
    { [has_psutil |-> TRUE, has_unstructured |-> TRUE],
      [has_psutil |-> FALSE, has_unstructured |-> TRUE],
      [has_psutil |-> TRUE, has_unstructured |-> FALSE] }

\* use_optimized of main
UseOptimized(a) ==
    IF a.program = "populate_database" THEN FALSE
    ELSE IF a.optimized_memory /\ a.traditional THEN TRUE
    ELSE ~a.traditional

VARIABLES
    pc,                     \* where the program is
    args,                   \* the parsed command line
    env,                    \* which optional imports succeeded
    files,                  \* the files of DATA_PATH, in processing order
    disk,                   \* the index directory at FAISS_PATH
    disk0,                  \* the index directory as the run found it
    should_reset,           \* main's should_reset
    typed,                  \* the line input() returned in this round
    threads,                \* the threads the TUI has started
    db,                     \* the index in memory
    current_batch_chunks,   \* the pending list of the batched mode
    total_chunks_processed,
    fileno,                 \* position of the loops over the files
    memory_mb,              \* resident memory of the process
    documents,              \* traditional mode: the chunks loaded so far
    run_chunks,             \* every chunk the run produced, with its id
    io,                     \* how often each collaborator was called
    log,                    \* what was reported
    exit_code,              \* -1 while running
    chunks,                 \* calculate_chunk_ids on its own: the argument
    chunks_with_ids,        \* calculate_chunk_ids on its own: the result
    query,                  \* query_rag: query_text, k and threshold
    results,                \* query_rag: what the search returned
    filtered_results,       \* query_rag: the results kept by the threshold
    context_text,           \* query_rag: the context put into the prompt
    response_data,          \* query_rag: what it returns
    calls                   \* query_rag: calls of the collaborators

ivars ==
    <<args, env, files, disk, disk0, should_reset, typed, threads,
      db, current_batch_chunks,
      total_chunks_processed, fileno, memory_mb, documents, run_chunks, io,
      log, exit_code>>

cvars == <<chunks, chunks_with_ids>>

qvars ==
    <<query, results, filtered_results, context_text, response_data, calls>>

vars == <<pc, ivars, cvars, qvars>>

NoCalls ==
    [cleared |-> 0, index_loads |-> 0, load_failures |-> 0, doc_loads |-> 0,
     embeds |-> 0, flushes |-> 0, saves |-> 0]

Count(field) == [io EXCEPT ![field] = @ + 1]

\* query_rag's result while it runs or after a failure (None), and the
\* counters of its collaborators
NoResponse == [none |-> TRUE, answer |-> "", sources |-> <<>>,
               num_sources |-> 0, query |-> ""]
NoQueryCalls == [load |-> 0, search |-> 0, invoke |-> 0]

\* calculate_chunk_ids is not running on its own
IdsIdle == chunks = <<>> /\ chunks_with_ids = <<>>

\* no query is running
QueryIdle ==
    /\ query = [query_text |-> "", k |-> 0, threshold |-> 0]
    /\ results = <<>>
    /\ filtered_results = <<>>
    /\ context_text = ""
    /\ response_data = NoResponse
    /\ calls = NoQueryCalls

\* no ingestion is running; the index directory is d
IngestIdle(d) ==
    /\ args = [program |-> "none", reset |-> FALSE, no_reset |-> FALSE,
               optimized_memory |-> FALSE, traditional |-> FALSE,
               batch_size |-> 1, memory_limit |-> 0]
    /\ env = [has_psutil |-> TRUE, has_unstructured |-> TRUE]
    /\ files = <<>>
    /\ disk = d
    /\ disk0 = d
    /\ should_reset = FALSE
    /\ typed = NoInput
    /\ threads = <<>>
    /\ db = None
    /\ current_batch_chunks = <<>>
    /\ total_chunks_processed = 0
    /\ fileno = 1
    /\ memory_mb = 100
    /\ documents = <<>>
    /\ run_chunks = <<>>
    /\ io = NoCalls
    /\ log = {}
    /\ exit_code = -1

Init ==
    /\ pc = "main"
    /\ args \in ArgSets
    /\ env \in Envs
    /\ files \in DataDirs
    \* a missing import is tried only where the run consults it
    /\ ~env.has_psutil => UseOptimized(args) /\ args.memory_limit > 0
    /\ ~env.has_unstructured => \E n \in 1..Len(files) : files[n].kind # "pdf"
    /\ disk \in Disks
    /\ disk0 = disk
    /\ should_reset = FALSE
    /\ typed = NoInput
    /\ threads = <<>>
    /\ db = None
    /\ current_batch_chunks = <<>>
    /\ total_chunks_processed = 0
    /\ fileno = 1
    /\ memory_mb = 100
    /\ documents = <<>>
    /\ run_chunks = <<>>
    /\ io = NoCalls
    /\ log = {}
    /\ exit_code = -1
    /\ IdsIdle
    /\ QueryIdle

(***************************************************************************)
(* main, determine_reset_behavior, prompt_user_for_reset, clear_database.   *)
(***************************************************************************)
Logged(event, detail) == log' = log \cup {<<event, detail>>}

\* determine_reset_behavior without the check for conflicting flags
determine_reset_behavior_unchecked(reset_flag, no_reset_flag) ==
    IF reset_flag THEN "reset"
    ELSE IF no_reset_flag THEN "update"
    ELSE "prompt"

\* determine_reset_behavior that asks the user unless both flags are given
determine_reset_behavior_asks(reset_flag, no_reset_flag) ==
    IF reset_flag /\ no_reset_flag THEN "exit" ELSE "prompt"

\* determine_reset_behavior(reset_flag, no_reset_flag): exit(1) on conflicting
\* flags, the flag's answer when one is set, the prompt otherwise.
determine_reset_behavior(reset_flag, no_reset_flag) ==
    IF reset_flag /\ no_reset_flag THEN "exit"
    ELSE IF reset_flag THEN "reset"
    ELSE IF no_reset_flag THEN "update"
    ELSE "prompt"

\* The first thing main does after parsing its arguments.
DetermineResetBehavior ==
    /\ pc = "main"
    /\ LET outcome == determine_reset_behavior(args.reset, args.no_reset)
       IN  IF outcome = "exit"
           THEN /\ pc' = "exit"
                /\ exit_code' = 1
                /\ Logged("error", "conflicting flags")
                /\ UNCHANGED should_reset
           ELSE IF outcome = "prompt"
           THEN /\ pc' = "prompt"
                /\ UNCHANGED <<should_reset, exit_code, log>>
           ELSE /\ pc' = "decided"
                /\ should_reset' = (outcome = "reset")
                /\ UNCHANGED <<exit_code, log>>
    /\ UNCHANGED <<args, env, files, disk, disk0, typed, threads, db,
                   current_batch_chunks, total_chunks_processed, fileno,
                   memory_mb, documents, run_chunks, io, cvars, qvars>>

\* A round of the while True loop of prompt_user_for_reset up to the return
\* of input(): the menu is printed and a line is read.
ReadChoice ==
    /\ pc = "prompt"
    /\ typed' \in PromptInputs
    /\ pc' = "choice"
    /\ UNCHANGED <<args, env, files, disk, disk0, should_reset, threads, db,
                   current_batch_chunks, total_chunks_processed, fileno,
                   memory_mb, documents, run_chunks, io, log, exit_code,
                   cvars, qvars>>

\* prompt_user_for_reset that takes any line starting with r or u
PromptChoiceByFirstLetter(line) ==
    LET choice == Strip(Lower(line))
    IN  IF choice # "" /\ CharAt(choice, 1) \in {"1", "r"} THEN "reset"
        ELSE IF choice # "" /\ CharAt(choice, 1) \in {"2", "u"} THEN "update"
        ELSE "again"

\* What the round does with the line read: choice = line.lower().strip();
\* return True, return False, or print "Invalid choice" and loop.
PromptChoice(line) ==
    LET choice == Strip(Lower(line))
    IN  IF choice \in {"1", "r", "reset"} THEN "reset"
        ELSE IF choice \in {"2", "u", "update"} THEN "update"
        ELSE "again"

\* The rest of the round of the while True loop of prompt_user_for_reset.
PromptUserForReset ==
    /\ pc = "choice"
    /\ typed' = NoInput
    /\ LET outcome == PromptChoice(typed)
       IN  IF outcome = "again"
           THEN /\ pc' = "prompt"
                /\ Logged("invalid choice", "prompt")
                /\ UNCHANGED should_reset
           ELSE /\ pc' = "decided"
                /\ should_reset' = (outcome = "reset")
                /\ UNCHANGED log
    /\ UNCHANGED <<args, env, files, disk, disk0, threads, db,
                   current_batch_chunks,
                   total_chunks_processed, fileno, memory_mb, documents,
                   run_chunks, io, exit_code, cvars, qvars>>

\* clear_database that leaves the directory in place
ClearDatabaseKeeps(d) == d

\* clear_database that empties the index and leaves it in place
ClearDatabaseEmpties(d) == IF d.exists THEN IndexOf(<<>>) ELSE d

\* clear_database(): shutil.rmtree(FAISS_PATH) if the directory exists
ClearDatabase(d) == IF d.exists THEN NoIndex ELSE d

\* main from "if should_reset" to the choice of the processing mode
ClearAndDispatch ==
    /\ pc = "decided"
    /\ IF should_reset
       THEN /\ disk' = ClearDatabase(disk)
            /\ io' = IF disk.exists THEN Count("cleared") ELSE io
       ELSE UNCHANGED <<disk, io>>
    /\ pc' = IF UseOptimized(args) THEN "batched" ELSE "load_documents"
    /\ UNCHANGED <<args, env, files, disk0,
                   should_reset, typed, threads, db,
                   current_batch_chunks, total_chunks_processed, fileno,
                   memory_mb, documents, run_chunks, log, exit_code, cvars, qvars>>

(***************************************************************************)
(* process_documents_in_batches and process_batch.                         *)
(***************************************************************************)
\* process_batch returning new_db where it should return the merged index
ProcessBatchForgetsMerge(batch, existing_db) == Faiss(batch)

\* process_batch that embeds at most batch_size chunks of the pending list
ProcessBatchCapped(batch, existing_db) ==
    LET size == IF args.batch_size < 1 THEN 1 ELSE args.batch_size
        part == SubSeq(batch, 1, IF Len(batch) < size THEN Len(batch) ELSE size)
    IN  IF existing_db.none THEN Faiss(part)
        ELSE Faiss(existing_db.entries \o part)

\* FAISS.from_documents(chunks) merged into existing_db, or standing alone
ProcessBatch(batch, existing_db) ==
    IF existing_db.none THEN Faiss(batch)
    ELSE Faiss(existing_db.entries \o batch)

\* check_memory() without the test "memory_limit > 0"
CheckMemoryAnyLimit == env.has_psutil /\ memory_mb > args.memory_limit

\* check_memory()
CheckMemory == env.has_psutil /\ args.memory_limit > 0
               /\ memory_mb > args.memory_limit

\* the flush condition with "more than batch_size" for "at least batch_size"
FlushConditionAbove(kind) ==
    \/ Len(current_batch_chunks) > args.batch_size
    \/ (kind = "pdf" /\ CheckMemory)

\* The condition under which the loop over files of this type flushes: the
\* PDF loop also asks check_memory(), the DOCX and DOC loops do not.
FlushCondition(kind) ==
    \/ Len(current_batch_chunks) >= args.batch_size
    \/ (kind = "pdf" /\ CheckMemory)

\* Is a loader for this file type imported?
LoaderAvailable(kind) == kind = "pdf" \/ env.has_unstructured

\* From the glob to the start of the loops: return when there is no file;
\* otherwise get_embedding() (it re-raises what the constructor raises, and
\* nothing here catches it), then load the existing index when the directory
\* exists.
StartBatches ==
    /\ pc = "batched"
    /\ IF files = <<>>
       THEN /\ pc' = "done"
            /\ exit_code' = 0
            /\ Logged("info", "no files")
            /\ UNCHANGED <<db, io>>
       ELSE \/ /\ pc' = "crashed"
               /\ exit_code' = 1
               /\ Logged("traceback", "get_embedding")
               /\ UNCHANGED <<db, io>>
            \/ /\ pc' = "loop"
               /\ UNCHANGED exit_code
               /\ IF disk.exists
                  THEN \/ /\ db' = Faiss(disk.entries)
                          /\ io' = Count("index_loads")
                          /\ UNCHANGED log
                       \/ /\ db' = None
                          /\ io' = [io EXCEPT !.index_loads = @ + 1,
                                              !.load_failures = @ + 1]
                          /\ Logged("error", "loading existing index")
                  ELSE UNCHANGED <<db, io, log>>
    /\ current_batch_chunks' = <<>>
    /\ total_chunks_processed' = 0
    /\ fileno' = 1
    /\ UNCHANGED <<args, env, files, disk, disk0,
                   should_reset, typed, threads, memory_mb,
                   documents, run_chunks, cvars, qvars>>

\* The body of one loop iteration up to current_batch_chunks.extend(...):
\* the loader raises (caught by the iteration's except), or the file's
\* chunks get their ids and join the pending list.
LoadDocument ==
    /\ pc = "loop"
    /\ fileno <= Len(files)
    /\ LoaderAvailable(files[fileno].kind)
    /\ io' = Count("doc_loads")
    /\ \/ /\ Logged("error processing", files[fileno].name)
          /\ fileno' = fileno + 1
          /\ UNCHANGED <<pc, current_batch_chunks, run_chunks, memory_mb>>
       \/ \E n \in 0..MaxChunks, rss \in MemoryReadings :
             LET new == calculate_chunk_ids(DocChunks(files[fileno], n))
             IN  /\ current_batch_chunks' = current_batch_chunks \o new
                 /\ run_chunks' = run_chunks \o new
                 /\ memory_mb' = rss
                 /\ pc' = "check"
                 /\ UNCHANGED <<fileno, log>>
    /\ UNCHANGED <<args, env, files, disk, disk0,
                   should_reset, typed, threads, db,
                   total_chunks_processed, documents, exit_code, cvars, qvars>>

\* The DOCX and DOC loops are skipped when the Unstructured loaders are
\* missing; a warning is printed.
SkipDocument ==
    /\ pc = "loop"
    /\ fileno <= Len(files)
    /\ ~LoaderAvailable(files[fileno].kind)
    /\ Logged("warning", "unstructured loaders not available")
    /\ fileno' = fileno + 1
    /\ UNCHANGED <<pc, args, env, files, disk, disk0,
                   should_reset, typed, threads, db,
                   current_batch_chunks, total_chunks_processed, memory_mb,
                   documents, run_chunks, io, exit_code, cvars, qvars>>

\* the iteration whose except also empties the pending list
CheckBatchDropsPending ==
    /\ pc = "check"
    /\ pc' = "loop"
    /\ fileno' = fileno + 1
    /\ IF FlushCondition(files[fileno].kind)
       THEN IF current_batch_chunks = <<>>
            THEN UNCHANGED <<db, current_batch_chunks,
                             total_chunks_processed, io, log>>
            ELSE \/ /\ db' = ProcessBatch(current_batch_chunks, db)
                    /\ total_chunks_processed' =
                          total_chunks_processed + Len(current_batch_chunks)
                    /\ current_batch_chunks' = <<>>
                    /\ io' = [io EXCEPT !.embeds = @ + 1, !.flushes = @ + 1]
                    /\ UNCHANGED log
                 \/ /\ io' = Count("embeds")
                    /\ Logged("error processing", files[fileno].name)
                    /\ current_batch_chunks' = <<>>
                    /\ UNCHANGED <<db, total_chunks_processed>>
       ELSE UNCHANGED <<db, current_batch_chunks, total_chunks_processed,
                        io, log>>
    /\ UNCHANGED <<args, env, files, disk, disk0,
                   should_reset, typed, threads, memory_mb,
                   documents, run_chunks, exit_code, cvars, qvars>>

\* The rest of the iteration: flush when the condition holds.  process_batch
\* returns existing_db untouched for an empty list; from_documents or
\* merge_from may raise, which the iteration's except reports as this file's
\* error, leaving the pending list as it is.
CheckBatch ==
    /\ pc = "check"
    /\ pc' = "loop"
    /\ fileno' = fileno + 1
    /\ IF FlushCondition(files[fileno].kind)
       THEN IF current_batch_chunks = <<>>
            THEN UNCHANGED <<db, current_batch_chunks,
                             total_chunks_processed, io, log>>
            ELSE \/ /\ db' = ProcessBatch(current_batch_chunks, db)
                    /\ total_chunks_processed' =
                          total_chunks_processed + Len(current_batch_chunks)
                    /\ current_batch_chunks' = <<>>
                    /\ io' = [io EXCEPT !.embeds = @ + 1, !.flushes = @ + 1]
                    /\ UNCHANGED log
                 \/ /\ io' = Count("embeds")
                    /\ Logged("error processing", files[fileno].name)
                    /\ UNCHANGED <<db, current_batch_chunks,
                                   total_chunks_processed>>
       ELSE UNCHANGED <<db, current_batch_chunks, total_chunks_processed,
                        io, log>>
    /\ UNCHANGED <<args, env, files, disk, disk0,
                   should_reset, typed, threads, memory_mb,
                   documents, run_chunks, exit_code, cvars, qvars>>

\* After the loops: "if current_batch_chunks: db = process_batch(...)".  No
\* except surrounds it, so a failing embedding ends the run.
FinalFlush ==
    /\ pc = "loop"
    /\ fileno > Len(files)
    /\ IF current_batch_chunks = <<>>
       THEN /\ pc' = "save"
            /\ UNCHANGED <<db, total_chunks_processed, io, exit_code, log>>
       ELSE \/ /\ db' = ProcessBatch(current_batch_chunks, db)
               /\ total_chunks_processed' =
                     total_chunks_processed + Len(current_batch_chunks)
               /\ io' = [io EXCEPT !.embeds = @ + 1, !.flushes = @ + 1]
               /\ pc' = "save"
               /\ UNCHANGED <<exit_code, log>>
            \/ /\ io' = Count("embeds")
               /\ pc' = "crashed"
               /\ exit_code' = 1
               /\ Logged("traceback", "process_batch")
               /\ UNCHANGED <<db, total_chunks_processed>>
    /\ UNCHANGED <<args, env, files, disk, disk0,
                   should_reset, typed, threads,
                   current_batch_chunks, fileno, memory_mb, documents,
                   run_chunks, cvars, qvars>>

\* the save guarded by the chunk counter instead of by db
ShouldSaveIfChunks(index, total) == total > 0

\* "if db:" before the final save
ShouldSave(index, total) == ~index.none

\* "if db: db.save_local(FAISS_PATH) else: print(No chunks were processed)"
SaveFinal ==
    /\ pc = "save"
    /\ pc' = "done"
    /\ exit_code' = 0
    /\ IF ShouldSave(db, total_chunks_processed)
       THEN /\ disk' = IndexOf(db.entries)
            /\ io' = Count("saves")
            /\ UNCHANGED log
       ELSE /\ Logged("info", "no chunks were processed")
            /\ UNCHANGED <<disk, io>>
    /\ UNCHANGED <<args, env, files, disk0,
                   should_reset, typed, threads, db,
                   current_batch_chunks, total_chunks_processed, fileno,
                   memory_mb, documents, run_chunks, cvars, qvars>>

(***************************************************************************)
(* Traditional mode: load_documents, split_documents, add_to_faiss.        *)
(***************************************************************************)
IsPdf(file) == file.kind = "pdf"

\* The files load_documents visits: core/populate_database.py globs *.pdf
\* only.
TraditionalFiles ==
    IF args.program = "populate_database" THEN SelectSeq(files, IsPdf)
    ELSE files

\* One iteration of a loop of load_documents.  database.py wraps the load in
\* try/except and goes on; core/populate_database.py does not, so there the
\* loader's exception leaves main.
LoadDocuments ==
    /\ pc = "load_documents"
    /\ fileno <= Len(TraditionalFiles)
    /\ LET file == TraditionalFiles[fileno]
       IN  IF ~LoaderAvailable(file.kind)
           THEN /\ Logged("warning", "unstructured loaders not available")
                /\ fileno' = fileno + 1
                /\ UNCHANGED <<pc, documents, io, exit_code>>
           ELSE /\ io' = Count("doc_loads")
                /\ \/ /\ documents' = documents
                      /\ IF args.program = "database"
                         THEN /\ Logged("error loading", file.name)
                              /\ fileno' = fileno + 1
                              /\ UNCHANGED <<pc, exit_code>>
                         ELSE /\ Logged("traceback", file.name)
                              /\ pc' = "crashed"
                              /\ exit_code' = 1
                              /\ UNCHANGED fileno
                   \/ \E n \in 0..MaxChunks :
                         /\ documents' = documents \o DocChunks(file, n)
                         /\ fileno' = fileno + 1
                         /\ UNCHANGED <<pc, exit_code, log>>
    /\ UNCHANGED <<args, env, files, disk, disk0,
                   should_reset, typed, threads, db,
                   current_batch_chunks, total_chunks_processed, memory_mb,
                   run_chunks, cvars, qvars>>

\* add_to_faiss(chunks), traditional branch.  One try covers load_local,
\* from_documents and merge_from; its except builds the index from the new
\* chunks alone.  load_ok, embed_ok, retry_ok: whether load_local, the first
\* from_documents (or merge_from) and the from_documents of the except (or
\* of the else branch) succeed; embedding_ok: whether get_embedding() does.
AddToFaiss ==
    /\ pc = "load_documents"
    /\ fileno > Len(TraditionalFiles)
    /\ IF documents = <<>>
       THEN /\ pc' = "done"
            /\ exit_code' = 0
            /\ Logged("info", "no chunks to add")
            /\ UNCHANGED <<db, disk, io, run_chunks>>
       ELSE LET new == calculate_chunk_ids(documents)
            IN  /\ run_chunks' = new
                /\ \E embedding_ok, load_ok, embed_ok, retry_ok \in BOOLEAN :
                      IF ~embedding_ok
                      THEN /\ pc' = "crashed"
                           /\ exit_code' = 1
                           /\ Logged("traceback", "get_embedding")
                           /\ UNCHANGED <<db, disk, io>>
                      ELSE IF disk.exists /\ load_ok /\ embed_ok
                      THEN /\ db' = Faiss(disk.entries \o new)
                           /\ disk' = IndexOf(disk.entries \o new)
                           /\ io' = [io EXCEPT !.index_loads = @ + 1,
                                               !.embeds = @ + 1,
                                               !.saves = @ + 1]
                           /\ pc' = "done"
                           /\ exit_code' = 0
                           /\ UNCHANGED log
                      ELSE IF retry_ok
                      THEN /\ db' = Faiss(new)
                           /\ disk' = IndexOf(new)
                           /\ io' = [io EXCEPT
                                 !.index_loads = @ + (IF disk.exists THEN 1 ELSE 0),
                                 !.load_failures =
                                     @ + (IF disk.exists /\ ~load_ok THEN 1 ELSE 0),
                                 !.embeds = @ + (IF disk.exists /\ load_ok
                                                 THEN 2 ELSE 1),
                                 !.saves = @ + 1]
                           /\ pc' = "done"
                           /\ exit_code' = 0
                           /\ IF disk.exists
                              THEN Logged("error", "loading existing index")
                              ELSE UNCHANGED log
                      ELSE /\ io' = [io EXCEPT
                                 !.index_loads = @ + (IF disk.exists THEN 1 ELSE 0),
                                 !.load_failures =
                                     @ + (IF disk.exists /\ ~load_ok THEN 1 ELSE 0),
                                 !.embeds = @ + (IF disk.exists /\ load_ok
                                                 THEN 2 ELSE 1)]
                           /\ pc' = "crashed"
                           /\ exit_code' = 1
                           /\ Logged("traceback", "from_documents")
                           /\ UNCHANGED <<db, disk>>
    /\ UNCHANGED <<args, env, files, disk0,
                   should_reset, typed, threads,
                   current_batch_chunks, total_chunks_processed, fileno,
                   memory_mb, documents, cvars, qvars>>

(***************************************************************************)
(* The run can be interrupted (Ctrl-C, kill) wherever it is.               *)
(***************************************************************************)
Running ==
    pc \in {"main", "prompt", "choice", "decided", "batched", "loop", "check",
            "save", "load_documents"}

Interrupt ==
    /\ Running
    /\ pc' = "interrupted"
    /\ exit_code' = 1
    /\ UNCHANGED <<args, env, files, disk, disk0,
                   should_reset, typed, threads, db,
                   current_batch_chunks, total_chunks_processed, fileno,
                   memory_mb, documents, run_chunks, io, log, cvars, qvars>>

Next ==
    \/ DetermineResetBehavior
    \/ ReadChoice
    \/ PromptUserForReset
    \/ ClearAndDispatch
    \/ StartBatches
    \/ LoadDocument
    \/ SkipDocument
    \/ CheckBatch
    \/ FinalFlush
    \/ SaveFinal
    \/ LoadDocuments
    \/ AddToFaiss
    \/ Interrupt

Spec == Init /\ [][Next]_vars

(***************************************************************************)
(* calculate_chunk_ids on its own, over every short sequence of chunks.    *)
(***************************************************************************)
IdSources == {"a.pdf", "b.docx"}
IdPages == {0, 1, NoPage}
PlainChunks == [source : IdSources, page : IdPages, text : {"new"}]
ChunkLists == UNION { [1..n -> PlainChunks] : n \in 0..MaxLen }

InitIds ==
    /\ pc = "calculate_chunk_ids"
    /\ chunks \in ChunkLists
    /\ chunks_with_ids = <<>>
    /\ IngestIdle(NoIndex)
    /\ QueryIdle

CalculateChunkIds ==
    /\ pc = "calculate_chunk_ids"
    /\ chunks_with_ids' = calculate_chunk_ids(chunks)
    /\ pc' = "ids_returned"
    /\ UNCHANGED <<chunks, ivars, qvars>>

NextIds == CalculateChunkIds

SpecIds == InitIds /\ [][NextIds]_vars

(***************************************************************************)
(* query_rag.                                                              *)
(***************************************************************************)
\* largest k a query asks for
MaxK == 3

\* DEFAULT_MAX_CONTEXT_LENGTH, in characters
DEFAULT_MAX_CONTEXT_LENGTH == 6000

\* n copies of s
RECURSIVE Repeat(_, _)
Repeat(s, n) ==
    IF n = 0 THEN ""
    ELSE IF n % 2 = 0 THEN LET half == Repeat(s, n \div 2) IN half \o half
    ELSE s \o Repeat(s, n - 1)

\* The entries of the index the queries run against: a short text and two
\* long ones; the two long ones joined are exactly DEFAULT_MAX_CONTEXT_LENGTH
\* characters, all three joined are more.
EntryShort ==
    [source |-> "a.pdf", page |-> 0, text |-> "alpha", id |-> "a.pdf:0:0"]
EntryLong ==
    [source |-> "a.pdf", page |-> 0, text |-> Repeat("b", 2993),
     id |-> "a.pdf:0:1"]
EntryLonger ==
    [source |-> "b.pdf", page |-> 0, text |-> Repeat("c", 3000),
     id |-> "b.pdf:0:0"]

QueryDisks == {NoIndex, IndexOf(<<EntryShort, EntryLong, EntryLonger>>)}

\* Scores and thresholds in tenths: 4 stands for 0.4.
Scores == {3, 4, 9}
Thresholds == {4, 10}
QueryTexts == {"", "  ", " \t\n", "what is alpha?", " why "}

Min(a, b) == IF a < b THEN a ELSE b

\* What similarity_search_with_score(query_text, k) may return: k entries of
\* the index (all of them when it has fewer), each once, in any order and
\* with any scores.
SearchResults(index, k) ==
    LET m == Min(k, Len(index.entries))
        docs == {index.entries[j] : j \in 1..Len(index.entries)}
    IN  { r \in [1..m -> [doc : docs, score : Scores]] :
            \A a, b \in 1..m : a # b => r[a].doc # r[b].doc }

\* the validation without the strip()
IsEmptyQueryNoStrip(query_text) == query_text = ""

\* "if not query_text.strip()"
IsEmptyQuery(query_text) == Strip(query_text) = ""

\* the filter with > for >=
RECURSIVE FilterByThresholdStrict(_, _)
FilterByThresholdStrict(found, threshold) ==
    IF found = <<>> THEN <<>>
    ELSE (IF Head(found).score > threshold THEN <<Head(found)>> ELSE <<>>)
         \o FilterByThresholdStrict(Tail(found), threshold)

\* [(doc, score) for doc, score in results if score >= threshold]
RECURSIVE FilterByThreshold(_, _)
FilterByThreshold(found, threshold) ==
    IF found = <<>> THEN <<>>
    ELSE (IF Head(found).score >= threshold THEN <<Head(found)>> ELSE <<>>)
         \o FilterByThreshold(Tail(found), threshold)

\* the join of candidates that were each cut to a share of the limit
RECURSIVE JoinContextCutEach(_)
JoinContextCutEach(kept) ==
    LET share == DEFAULT_MAX_CONTEXT_LENGTH \div 3
        cut(text) == SubSeq(text, 1, Min(Len(text), share))
    IN  IF kept = <<>> THEN ""
        ELSE IF Len(kept) = 1 THEN cut(kept[1].doc.text)
        ELSE cut(kept[1].doc.text) \o "\n\n---\n\n"
                \o JoinContextCutEach(Tail(kept))

\* "\n\n---\n\n".join([doc.page_content for doc, _score in filtered_results])
RECURSIVE JoinContext(_)
JoinContext(kept) ==
    IF kept = <<>> THEN ""
    ELSE IF Len(kept) = 1 THEN kept[1].doc.text
    ELSE kept[1].doc.text \o "\n\n---\n\n" \o JoinContext(Tail(kept))

\* the truncation with a slice one character longer
TruncateOneMore(text) ==
    IF Len(text) > DEFAULT_MAX_CONTEXT_LENGTH
    THEN SubSeq(text, 1, DEFAULT_MAX_CONTEXT_LENGTH + 1) \o "...[truncated]"
    ELSE text

\* the truncation of the joined context
Truncate(text) ==
    IF Len(text) > DEFAULT_MAX_CONTEXT_LENGTH
    THEN SubSeq(text, 1, DEFAULT_MAX_CONTEXT_LENGTH) \o "...[truncated]"
    ELSE text

\* the sources without the last candidate when the context was truncated
SourcesOfUncut(kept) ==
    IF Len(JoinContext(kept)) > DEFAULT_MAX_CONTEXT_LENGTH
    THEN [j \in 1..(Len(kept) - 1) |-> kept[j].doc.id]
    ELSE [j \in 1..Len(kept) |-> kept[j].doc.id]

\* [doc.metadata.get("id", "Unknown") for doc, _score in filtered_results]
SourcesOf(kept) == [j \in 1..Len(kept) |-> kept[j].doc.id]

InitQuery ==
    /\ pc = "query_rag"
    /\ query \in [query_text : QueryTexts, k : 1..MaxK, threshold : Thresholds]
    /\ results = <<>>
    /\ filtered_results = <<>>
    /\ context_text = ""
    /\ response_data = NoResponse
    /\ calls = NoQueryCalls
    /\ \E d \in QueryDisks : IngestIdle(d)
    /\ IdsIdle

\* query_rag up to embedding_function = get_embedding(): an empty query is
\* reported and None returned; get_embedding() re-raises what the
\* constructor raises.
ValidateQuery ==
    /\ pc = "query_rag"
    /\ IF IsEmptyQuery(query.query_text)
       THEN /\ pc' = "query_returned"
            /\ Logged("error", "query cannot be empty")
       ELSE \/ /\ pc' = "load_index"
               /\ UNCHANGED log
            \/ /\ pc' = "query_raised"
               /\ Logged("traceback", "get_embedding")
    /\ UNCHANGED <<args, env, files, disk, disk0,
                   should_reset, typed, threads, db,
                   current_batch_chunks, total_chunks_processed, fileno,
                   memory_mb, documents, run_chunks, io, exit_code, cvars,
                   qvars>>

\* the first try with an except that goes on to the search
LoadIndexFallsThrough ==
    /\ pc = "load_index"
    /\ calls' = [calls EXCEPT !.load = @ + 1]
    /\ pc' = "search"
    /\ \/ /\ disk.exists
          /\ db' = Faiss(disk.entries)
          /\ UNCHANGED log
       \/ /\ Logged("error", "loading FAISS index")
          /\ db' = Faiss(<<>>)
    /\ UNCHANGED <<args, env, files, disk, disk0,
                   should_reset, typed, threads,
                   current_batch_chunks, total_chunks_processed, fileno,
                   memory_mb, documents, run_chunks, io, exit_code, cvars,
                   query, results, filtered_results, context_text,
                   response_data>>

\* the first try with an except that creates an empty index at the path
LoadIndexCreates ==
    /\ pc = "load_index"
    /\ calls' = [calls EXCEPT !.load = @ + 1]
    /\ \/ /\ disk.exists
          /\ db' = Faiss(disk.entries)
          /\ pc' = "search"
          /\ UNCHANGED <<log, disk>>
       \/ /\ pc' = "query_returned"
          /\ Logged("error", "loading FAISS index")
          /\ disk' = IndexOf(<<>>)
          /\ UNCHANGED db
    /\ UNCHANGED <<args, env, files, disk0,
                   should_reset, typed, threads,
                   current_batch_chunks, total_chunks_processed, fileno,
                   memory_mb, documents, run_chunks, io, exit_code, cvars,
                   query, results, filtered_results, context_text,
                   response_data>>

\* The first try: FAISS.load_local.  It raises when there is no index and
\* may raise when there is one.
LoadIndex ==
    /\ pc = "load_index"
    /\ calls' = [calls EXCEPT !.load = @ + 1]
    /\ \/ /\ disk.exists
          /\ db' = Faiss(disk.entries)
          /\ pc' = "search"
          /\ UNCHANGED log
       \/ /\ pc' = "query_returned"
          /\ Logged("error", "loading FAISS index")
          /\ UNCHANGED db
    /\ UNCHANGED <<args, env, files, disk, disk0,
                   should_reset, typed, threads,
                   current_batch_chunks, total_chunks_processed, fileno,
                   memory_mb, documents, run_chunks, io, exit_code, cvars,
                   query, results, filtered_results, context_text,
                   response_data>>

\* the second try without the return on an empty filtered_results
SearchAndFilterGoesOn ==
    /\ pc = "search"
    /\ calls' = [calls EXCEPT !.search = @ + 1]
    /\ \/ /\ pc' = "query_returned"
          /\ Logged("error", "similarity search")
          /\ UNCHANGED <<results, filtered_results>>
       \/ \E found \in SearchResults(db, query.k) :
             /\ results' = found
             /\ filtered_results' = FilterByThreshold(found, query.threshold)
             /\ pc' = "generate"
             /\ UNCHANGED log
    /\ UNCHANGED <<args, env, files, disk, disk0,
                   should_reset, typed, threads, db,
                   current_batch_chunks, total_chunks_processed, fileno,
                   memory_mb, documents, run_chunks, io, exit_code, cvars,
                   query, context_text, response_data>>

\* The second try: the search (which may raise) and the threshold filter.
SearchAndFilter ==
    /\ pc = "search"
    /\ calls' = [calls EXCEPT !.search = @ + 1]
    /\ \/ /\ pc' = "query_returned"
          /\ Logged("error", "similarity search")
          /\ UNCHANGED <<results, filtered_results>>
       \/ \E found \in SearchResults(db, query.k) :
             LET kept == FilterByThreshold(found, query.threshold)
             IN  /\ results' = found
                 /\ filtered_results' = kept
                 /\ IF kept = <<>>
                    THEN /\ pc' = "query_returned"
                         /\ Logged("error", "no documents above threshold")
                    ELSE /\ pc' = "generate"
                         /\ UNCHANGED log
    /\ UNCHANGED <<args, env, files, disk, disk0,
                   should_reset, typed, threads, db,
                   current_batch_chunks, total_chunks_processed, fileno,
                   memory_mb, documents, run_chunks, io, exit_code, cvars,
                   query, context_text, response_data>>

\* The context, the third try (prompt and model.invoke, either of which may
\* raise) and the result.
GenerateResponse ==
    /\ pc = "generate"
    /\ context_text' = Truncate(JoinContext(filtered_results))
    /\ pc' = "query_returned"
    /\ \/ /\ Logged("error", "generating response")
          /\ UNCHANGED <<calls, response_data>>
       \/ /\ calls' = [calls EXCEPT !.invoke = @ + 1]
          /\ Logged("error", "generating response")
          /\ UNCHANGED response_data
       \/ /\ calls' = [calls EXCEPT !.invoke = @ + 1]
          /\ response_data' =
                [none |-> FALSE, answer |-> "response_text",
                 sources |-> SourcesOf(filtered_results),
                 num_sources |-> Len(SourcesOf(filtered_results)),
                 query |-> query.query_text]
          /\ UNCHANGED log
    /\ UNCHANGED <<args, env, files, disk, disk0,
                   should_reset, typed, threads, db,
                   current_batch_chunks, total_chunks_processed, fileno,
                   memory_mb, documents, run_chunks, io, exit_code, cvars,
                   query, results, filtered_results>>

\* What the caller of a failed query gets: every failure path of query_rag
\* ends in "return None", and main drops what query_rag returns and ends,
\* so the process exits with status 0 after any of them.
QueryFailureCode(failure) == [returned |-> NoResponse, exit |-> 0]

\* main after its call of query_rag: the returned value is not looked at and
\* the process ends with status 0; an exception that left query_rag leaves
\* main as well and the interpreter exits with status 1.
QueryMainExit ==
    /\ pc \in {"query_returned", "query_raised"}
    /\ exit_code = -1
    /\ exit_code' = (IF pc = "query_raised" THEN 1 ELSE 0)
    /\ UNCHANGED <<pc, args, env, files, disk, disk0,
                   should_reset, typed, threads, db,
                   current_batch_chunks, total_chunks_processed, fileno,
                   memory_mb, documents, run_chunks, io, log, cvars, qvars>>

NextQuery ==
    \/ ValidateQuery
    \/ LoadIndex
    \/ SearchAndFilter
    \/ GenerateResponse
    \/ QueryMainExit

SpecQuery == InitQuery /\ [][NextQuery]_vars

(***************************************************************************)
(* The TUI (inquiro_tui.py): its three handlers that start a pipeline, and *)
(* the threads they start.                                                 *)
(***************************************************************************)
\* most threads the TUI is made to start
MaxThreads == 2

\* what the user may have typed into the chat input
ChatInputs == {"", "  ", "what is alpha?"}

\* threading.Thread(target=..., daemon=True).start()
StartThread(target) ==
    threads' = Append(threads, [target |-> target, at |-> "started",
                                db |-> None])

\* the threads that have not finished
Alive == {t \in 1..Len(threads) : threads[t].at # "finished"}

InitTui ==
    /\ pc = "tui"
    /\ files \in DataDirs
    /\ disk \in Disks
    /\ threads = <<>>
    /\ args = [program |-> "none", reset |-> FALSE, no_reset |-> FALSE,
               optimized_memory |-> FALSE, traditional |-> FALSE,
               batch_size |-> 1, memory_limit |-> 0]
    /\ env = [has_psutil |-> TRUE, has_unstructured |-> TRUE]
    /\ disk0 = disk
    /\ should_reset = FALSE
    /\ typed = NoInput
    /\ db = None
    /\ current_batch_chunks = <<>>
    /\ total_chunks_processed = 0
    /\ fileno = 1
    /\ memory_mb = 100
    /\ documents = <<>>
    /\ run_chunks = <<>>
    /\ io = NoCalls
    /\ log = {}
    /\ exit_code = -1
    /\ IdsIdle
    /\ QueryIdle

\* the variables no handler and no thread of the TUI touches
TuiFrame ==
    UNCHANGED <<pc, args, env, files, disk0, should_reset, typed, db,
                current_batch_chunks, total_chunks_processed, fileno,
                memory_mb, documents, run_chunks, io, exit_code, cvars,
                qvars>>

\* ContextManagerZone.populate_database_action: with no file listed it only
\* reports; otherwise it starts run_populate in a new thread and returns.
PopulateDatabaseAction ==
    /\ pc = "tui"
    /\ Len(threads) < MaxThreads
    /\ IF files = <<>>
       THEN /\ Logged("chat error", "No documents found")
            /\ UNCHANGED threads
       ELSE /\ Logged("chat", "Building database")
            /\ StartThread("run_populate")
    /\ UNCHANGED disk
    /\ TuiFrame

\* ContextManagerZone.clear_database_action: starts run_clear in a new thread.
ClearDatabaseAction ==
    /\ pc = "tui"
    /\ Len(threads) < MaxThreads
    /\ StartThread("run_clear")
    /\ UNCHANGED <<disk, log>>
    /\ TuiFrame

\* ChatZone.send_message: an empty message is dropped; without the index
\* directory it only reports; otherwise it starts run_query in a new thread.
SendMessage ==
    /\ pc = "tui"
    /\ Len(threads) < MaxThreads
    /\ \E msg \in ChatInputs :
          IF Strip(msg) = ""
          THEN UNCHANGED <<threads, log>>
          ELSE IF ~disk.exists
          THEN /\ Logged("chat error", "No database found")
               /\ UNCHANGED threads
          ELSE /\ Logged("chat", "Searching documents")
               /\ StartThread("run_query")
    /\ UNCHANGED disk
    /\ TuiFrame

\* run_populate up to the point where the ingestion has loaded the existing
\* index (or found none); an exception is reported in the chat.
RunPopulateLoad ==
    \E t \in 1..Len(threads) :
          /\ threads[t].target = "run_populate"
          /\ threads[t].at = "started"
          /\ \/ /\ threads' = [threads EXCEPT ![t].at = "loaded",
                                              ![t].db = IF disk.exists
                                                        THEN Faiss(disk.entries)
                                                        ELSE None]
                /\ UNCHANGED log
             \/ /\ threads' = [threads EXCEPT ![t].at = "finished"]
                /\ Logged("chat error", "Database build failed")
          /\ UNCHANGED disk
          /\ TuiFrame

\* the rest of run_populate: the ingestion merges this run's chunks into the
\* index it loaded and saves the result; an exception is reported.
RunPopulateSave ==
    \E t \in 1..Len(threads) :
          /\ threads[t].target = "run_populate"
          /\ threads[t].at = "loaded"
          /\ threads' = [threads EXCEPT ![t].at = "finished"]
          /\ \/ /\ disk' = IndexOf(ProcessBatch(
                              calculate_chunk_ids(DocChunks(files[1], 1)),
                              threads[t].db).entries)
                /\ Logged("chat", "Database built successfully")
             \/ /\ Logged("chat error", "Database build failed")
                /\ UNCHANGED disk
          /\ TuiFrame

\* run_clear: clear_database(), then the report.
RunClear ==
    \E t \in 1..Len(threads) :
          /\ threads[t].target = "run_clear"
          /\ threads[t].at = "started"
          /\ threads' = [threads EXCEPT ![t].at = "finished"]
          /\ disk' = ClearDatabase(disk)
          /\ Logged("chat", "Database cleared successfully")
          /\ TuiFrame

\* run_query: query_rag(msg) and the assistant's message, or the report of
\* an exception.
RunQuery ==
    \E t \in 1..Len(threads) :
          /\ threads[t].target = "run_query"
          /\ threads[t].at = "started"
          /\ threads' = [threads EXCEPT ![t].at = "finished"]
          /\ \/ Logged("chat", IF disk.exists THEN "answer" ELSE "None")
             \/ Logged("chat error", "Query failed")
          /\ UNCHANGED disk
          /\ TuiFrame

NextTui ==
    \/ PopulateDatabaseAction
    \/ ClearDatabaseAction
    \/ SendMessage
    \/ RunPopulateLoad
    \/ RunPopulateSave
    \/ RunClear
    \/ RunQuery

SpecTui == InitTui /\ [][NextTui]_vars

(***************************************************************************)
(* Properties.                                                             *)
(***************************************************************************)

\* C1: calculate_chunk_ids gives a chunk index 0 when it is the first chunk or
\* its (source, page) differs from the preceding chunk's, and the preceding
\* chunk's index + 1 otherwise; so the j-th chunk of a maximal run of chunks
\* with one (source, page) gets j - 1, and every id reads
\* "<source>:<page>:<chunkIndex>".  Order and contents of the chunks are kept.
C1_ChunkIdsCountRuns ==
    pc = "ids_returned" =>
        LET n == Len(chunks)
            SameKey(a, b) ==
                chunks[a].source = chunks[b].source
                /\ chunks[a].page = chunks[b].page
            Prefix(j) ==
                chunks[j].source \o ":" \o FormatPage(chunks[j].page) \o ":"
            RunStart(j) ==
                CHOOSE first \in 1..j :
                    /\ \A t \in (first + 1)..j : SameKey(t, t - 1)
                    /\ first = 1 \/ ~SameKey(first, first - 1)
        IN  /\ Len(chunks_with_ids) = n
            /\ \A j \in 1..n :
                  /\ chunks_with_ids[j].source = chunks[j].source
                  /\ chunks_with_ids[j].page = chunks[j].page
                  /\ chunks_with_ids[j].text = chunks[j].text
                  /\ chunks_with_ids[j].id
                        = Prefix(j) \o ToString(j - RunStart(j))
                  /\ IF j = 1 \/ ~SameKey(j, j - 1)
                     THEN chunks_with_ids[j].id = Prefix(j) \o "0"
                     ELSE \E index \in 0..n :
                             /\ chunks_with_ids[j - 1].id
                                   = Prefix(j - 1) \o ToString(index)
                             /\ chunks_with_ids[j].id
                                   = Prefix(j) \o ToString(index + 1)

\* C1 witness: a run of two chunks of one page followed by a chunk of another
\* page: indices 0, 1, 0.
C1_Witness ==
    /\ pc = "ids_returned"
    /\ Len(chunks) = 3
    /\ chunks[1].source = "a.pdf" /\ chunks[1].page = 0
    /\ chunks[2] = chunks[1]
    /\ chunks[3].source = "a.pdf" /\ chunks[3].page = 1
    /\ chunks_with_ids[2].id = "a.pdf:0:1"
    /\ chunks_with_ids[3].id = "a.pdf:1:0"

\* C2: with --reset and --no-reset both given the run ends in exit(1) before
\* any I/O: nothing is deleted, loaded, embedded or saved.
C2_ConflictingFlagsExitFirst ==
    (args.reset /\ args.no_reset) =>
        /\ pc \in {"main", "exit", "interrupted"}
        /\ pc = "exit" => exit_code = 1 /\ <<"error", "conflicting flags">> \in log
        /\ io = NoCalls
        /\ disk = disk0
        /\ db = None
        /\ run_chunks = <<>> /\ documents = <<>> /\ current_batch_chunks = <<>>

\* C2 witness: the run has exited on conflicting flags and an index that
\* existed is still there.
C2_Witness ==
    /\ pc = "exit"
    /\ args.reset /\ args.no_reset
    /\ exit_code = 1
    /\ disk.exists /\ disk.entries # <<>>

\* C3: in batched mode, once a loaded document's chunks are in the pending
\* list, the loop does not move on to the next document without flushing
\* when the list has at least batch_size items or (memory_limit > 0 and the
\* resident memory is above memory_limit), whatever the document's type.
\* (An empty pending list has nothing to flush; a flush that raises still
\* counts as a flush.)
C3_FlushWheneverDue ==
    [][ ( /\ pc = "check"
          /\ pc' = "loop"
          /\ current_batch_chunks # <<>>
          /\ \/ Len(current_batch_chunks) >= args.batch_size
             \/ /\ env.has_psutil
                /\ args.memory_limit > 0
                /\ memory_mb > args.memory_limit )
        => io'.embeds = io.embeds + 1 ]_vars

\* C4 as claimed: every batched run that ends normally has saved the index
\* exactly once.
C4_SavedExactlyOnce ==
    (pc = "done" /\ UseOptimized(args)) => io.saves = 1

\* C4 as amended: a batched run saves at most once, only in its last step and
\* so after every flush, never between flushes; a run that ends normally has
\* saved exactly once when an index is in memory at its end, and not at all
\* otherwise (no files found, or nothing loaded and nothing flushed).
C4_SavedOnceAtEndIfIndex ==
    [][ UseOptimized(args) =>
          /\ io'.saves # io.saves
                => io.saves = 0 /\ io'.saves = 1 /\ pc = "save" /\ pc' = "done"
          /\ io'.embeds # io.embeds => io.saves = 0
          /\ pc' = "done" => io'.saves = (IF db'.none THEN 0 ELSE 1)
          /\ (pc' = "done" /\ files = <<>>) => io'.saves = 0 ]_vars

\* C4 witness: a batched run that flushed inside the loop, flushed the
\* remainder, and then saved once.
C4_Witness ==
    /\ pc = "done"
    /\ UseOptimized(args)
    /\ io.flushes >= 2
    /\ io.saves = 1
    /\ disk = IndexOf(db.entries)

\* C5: a batched run interrupted after one or more completed flushes leaves
\* on disk the index as the last completed flush made it.
C5_DiskReflectsCompletedFlushes ==
    (pc = "interrupted" /\ UseOptimized(args) /\ io.flushes >= 1)
        => disk = IndexOf(db.entries)

\* C6: in every ingestion mode a document whose load fails adds no chunk, is
\* reported, and the run goes on with the next file.
C6_BadFileNeverAborts ==
    [][ (io'.doc_loads = io.doc_loads + 1 /\ log' # log)
        => /\ pc' = pc
           /\ fileno' = fileno + 1
           /\ run_chunks' = run_chunks
           /\ current_batch_chunks' = current_batch_chunks
           /\ documents' = documents ]_vars

\* C7: when the index directory exists but load_local fails, the run goes on
\* as if there were no index: what it saves is built from this run's chunks
\* alone (nothing is saved when the run has no chunk), and if the run ends in
\* a traceback it is an embedding's, not the load's.
C7_LoadFailureBuildsFresh ==
    io.load_failures >= 1 =>
        /\ pc = "done" =>
              /\ disk = (IF run_chunks = <<>> THEN disk0 ELSE IndexOf(run_chunks))
              /\ io.saves = (IF run_chunks = <<>> THEN 0 ELSE 1)
        /\ pc = "crashed" =>
              \/ <<"traceback", "process_batch">> \in log
              \/ <<"traceback", "from_documents">> \in log

\* C7 witness: an existing index failed to load, and the run saved an index
\* of two or more flushes holding exactly its own chunks.
C7_Witness ==
    /\ pc = "done"
    /\ io.load_failures = 1
    /\ disk0.exists /\ disk0.entries # <<>>
    /\ io.flushes >= 2
    /\ io.saves = 1
    /\ disk = IndexOf(run_chunks)

\* C8: under UPDATE with an existing index that loads, the saved index is the
\* multiset union of the existing entries and the run's chunks: every entry
\* occurs as often as in the two together, whether or not its id was indexed
\* before.
C8_UpdateIsMultisetUnion ==
    ( /\ pc = "done"
      /\ ~should_reset
      /\ io.index_loads >= 1
      /\ io.load_failures = 0 )
    => LET Occurs(e, seq) == Cardinality({j \in 1..Len(seq) : seq[j] = e})
           Elems(seq) == {seq[j] : j \in 1..Len(seq)}
       IN  \A e \in Elems(disk.entries) \cup Elems(disk0.entries)
                      \cup Elems(run_chunks) :
               Occurs(e, disk.entries)
                   = Occurs(e, disk0.entries) + Occurs(e, run_chunks)

\* C9: after a RESET run that ends normally, the index at FAISS_PATH holds
\* exactly the chunks of this run (no index at all when there are none), and
\* so nothing of the index the run found.
C9_ResetKeepsOnlyThisRun ==
    (pc = "done" /\ should_reset) =>
        /\ disk.entries = run_chunks
        /\ disk.exists <=> run_chunks # <<>>

\* C9 witness: a RESET run found an index, deleted it, and saved its own
\* chunks.
C9_Witness ==
    /\ pc = "done"
    /\ should_reset
    /\ disk0.exists /\ disk0.entries # <<>>
    /\ io.cleared = 1
    /\ run_chunks # <<>>
    /\ disk = IndexOf(run_chunks)


\* C10: query_rag with an empty or whitespace-only query reports the empty
\* query, returns None, and calls neither load_local nor the search nor the
\* model.
C10_EmptyQueryTouchesNothing ==
    (\A j \in 1..Len(query.query_text) :
         SubSeq(query.query_text, j, j) \in {" ", "\t", "\n", "\r", "\f"})
    => /\ pc \in {"query_rag", "query_returned"}
       /\ calls = NoQueryCalls
       /\ db = None
       /\ results = <<>>
       /\ response_data = NoResponse
       /\ pc = "query_returned" => <<"error", "query cannot be empty">> \in log

\* C10 witness: a whitespace-only query against an existing index has
\* returned None without a call.
C10_Witness ==
    /\ pc = "query_returned"
    /\ query.query_text = " \t\n"
    /\ disk.exists
    /\ response_data.none
    /\ calls = NoQueryCalls

C12_FilterKeepsExactlyAtOrAboveThreshold ==
    calls.search = 1 =>
        LET Found == {results[j] : j \in 1..Len(results)}
            Kept == {filtered_results[j] : j \in 1..Len(filtered_results)}
        IN  /\ \A r \in Found : r.score < query.threshold => r \notin Kept
            /\ \A r \in Found : r.score > query.threshold => r \in Kept
            /\ \A r \in Found : r.score = query.threshold => r \in Kept
            /\ Kept \subseteq Found
            /\ Len(filtered_results) = Cardinality(Kept)

\* C12 witness: the search returned one candidate below, one at and one above
\* the threshold, and the two at or above it were kept.
C12_Witness ==
    /\ calls.search = 1
    /\ Len(results) = 3
    /\ query.threshold = 4
    /\ {results[j].score : j \in 1..3} = {3, 4, 9}
    /\ Len(filtered_results) = 2
    /\ {filtered_results[j].score : j \in 1..2} = {4, 9}

\* C13: whatever order the search returned its candidates in, the context and
\* the returned sources list the kept candidates by descending score: they
\* are the join and the ids of some arrangement of filtered_results whose
\* scores never increase.
C13_ContextInDescendingScoreOrder ==
    (pc = "query_returned" /\ filtered_results # <<>>) =>
        LET n == Len(filtered_results)
            Arrangements ==
                { p \in [1..n -> 1..n] :
                    /\ \A a, b \in 1..n : a # b => p[a] # p[b]
                    /\ \A a \in 1..(n - 1) :
                          filtered_results[p[a]].score
                             >= filtered_results[p[a + 1]].score }
        IN  \E p \in Arrangements :
               LET sorted == [j \in 1..n |-> filtered_results[p[j]]]
               IN  /\ context_text = Truncate(JoinContext(sorted))
                   /\ ~response_data.none =>
                         response_data.sources
                            = [j \in 1..n |-> sorted[j].doc.id]

C15_TruncatedOnceAfterJoin ==
    (pc = "query_returned" /\ filtered_results # <<>>) =>
        LET n == Len(filtered_results)
            sep == "\n\n---\n\n"
            marker == "...[truncated]"
            limit == DEFAULT_MAX_CONTEXT_LENGTH
            text(j) == filtered_results[j].doc.text
            start[j \in 1..n] ==
                IF j = 1 THEN 0 ELSE start[j - 1] + Len(text(j - 1)) + Len(sep)
            total == start[n] + Len(text(n))
            Piece(from, to) == SubSeq(context_text, from, to)
        IN  /\ Len(sep) = 7
            /\ Len(context_text)
                  = (IF total > limit THEN limit + Len(marker) ELSE total)
            /\ total > limit
                  => Piece(limit + 1, limit + Len(marker)) = marker
            /\ \A j \in 1..n :
                  start[j] < limit =>
                     LET shown == Min(Len(text(j)), limit - start[j])
                     IN  Piece(start[j] + 1, start[j] + shown)
                            = SubSeq(text(j), 1, shown)
            /\ \A j \in 2..n :
                  start[j] <= limit
                     => Piece(start[j] - Len(sep) + 1, start[j]) = sep

\* C15 witness: the short, the long and the longer candidate were kept in
\* that order; their join is 6012 characters, so the context is the first
\* 6000 of them, with the first two candidates whole, and the marker.
C15_Witness ==
    /\ pc = "query_returned"
    /\ Len(filtered_results) = 3
    /\ filtered_results[1].doc = EntryShort
    /\ filtered_results[2].doc = EntryLong
    /\ filtered_results[3].doc = EntryLonger
    /\ Len(context_text) = DEFAULT_MAX_CONTEXT_LENGTH + 14
    /\ SubSeq(context_text, 1, 12) = "alpha\n\n---\n\n"
    /\ SubSeq(context_text, 5999, 6003) = "cc..."

\* C16: when the search returned and no candidate has score >= threshold,
\* query_rag reports that no document is above the threshold, which is not
\* the report of a failed index load, and returns None there: no context is
\* built and the model is never invoked.  That report is made in no other
\* case.
C16_NoRelevantDocumentsReported ==
    LET searched ==
            calls.search = 1 /\ <<"error", "similarity search">> \notin log
        none_kept == \A j \in 1..Len(results) : results[j].score < query.threshold
        reported == <<"error", "no documents above threshold">> \in log
    IN  /\ (searched /\ none_kept) =>
              /\ pc = "query_returned"
              /\ reported
              /\ <<"error", "loading FAISS index">> \notin log
              /\ <<"error", "generating response">> \notin log
              /\ filtered_results = <<>>
              /\ context_text = ""
              /\ response_data.none
              /\ calls.invoke = 0
        /\ reported => searched /\ none_kept

\* C16 witness: three candidates came back, all below the threshold, and the
\* query returned None with the report and without a model call.
C16_Witness ==
    /\ pc = "query_returned"
    /\ Len(results) = 3
    /\ query.threshold = 4
    /\ \A j \in 1..3 : results[j].score = 3
    /\ filtered_results = <<>>
    /\ <<"error", "no documents above threshold">> \in log
    /\ response_data.none
    /\ calls = [load |-> 1, search |-> 1, invoke |-> 0]

\* C17: what a failed query gives its caller (the value query_rag returned
\* and the status the process exited with) tells the three failures apart:
\* after a failed index load, after a search that kept nothing and after a
\* failed generation it is never what either of the other two gives.
C17_FailureCodesDistinct ==
    LET Failures == {"loading FAISS index", "no documents above threshold",
                     "generating response"}
        code == [returned |-> response_data, exit |-> exit_code]
    IN  \A failure \in Failures :
           (exit_code # -1 /\ <<"error", failure>> \in log)
              => \A other \in Failures \ {failure} :
                    code # QueryFailureCode(other)

\* C18: a successful query returns one source per kept candidate: sources[j]
\* is the chunk id of filtered_results[j], for every j and nothing more, and
\* num_sources is their number, whether or not the truncation left a
\* candidate's text out of the context.
C18_SourcesMatchFiltered ==
    ~response_data.none =>
        /\ filtered_results # <<>>
        /\ Len(response_data.sources) = Len(filtered_results)
        /\ \A j \in 1..Len(filtered_results) :
              response_data.sources[j] = filtered_results[j].doc.id
        /\ response_data.num_sources = Len(filtered_results)
        /\ response_data.answer = "response_text"
        /\ response_data.query = query.query_text

\* C18 witness: the long, the longer and the short candidate were kept in
\* that order; the short one's text starts after character 6000 of the join
\* and is not in the context at all, and its id is the third source.
C18_Witness ==
    /\ ~response_data.none
    /\ Len(filtered_results) = 3
    /\ filtered_results[3].doc = EntryShort
    /\ Len(context_text) = DEFAULT_MAX_CONTEXT_LENGTH + 14
    /\ SubSeq(context_text, 5994, 6000) = "ccccccc"
    /\ response_data.sources = <<"a.pdf:0:1", "b.pdf:0:0", "a.pdf:0:0">>
    /\ response_data.num_sources = 3

\* C19: a run started with --batch-size <= 0 or --memory-limit < 0 ends in a
\* configuration error before any work: nothing is deleted, loaded, embedded
\* or saved, and the run does not end normally.
C19_InvalidNumbersAreFatal ==
    (args.program # "none" /\ (args.batch_size <= 0 \/ args.memory_limit < 0))
    => /\ pc # "done"
       /\ io = NoCalls
       /\ disk = disk0
       /\ db = None
       /\ run_chunks = <<>> /\ documents = <<>> /\ current_batch_chunks = <<>>

\* C20: with exactly one of --reset and --no-reset, determine_reset_behavior
\* returns at once, without a round of the prompt: should_reset is True for
\* --reset and False for --no-reset, and stays so.  While should_reset is
\* False (UPDATE) no step of the run calls clear_database or leaves the index
\* directory missing where it was there.
C20_OneFlagDecidesWithoutPrompt ==
    [][ /\ (args.reset # args.no_reset) =>
              /\ pc' # "prompt"
              /\ log' \cap {<<"invalid choice", "prompt">>} = {}
              /\ pc = "main" =>
                    \/ pc' = "decided" /\ should_reset' = args.reset
                    \/ pc' = "interrupted"
              /\ pc # "main" => should_reset' = should_reset
        /\ ~should_reset' =>
              /\ io'.cleared = io.cleared
              /\ disk.exists => disk'.exists ]_vars

\* C20 witness: a run with only --no-reset found an index, never asked and
\* never cleared, and saved an index that still holds what it found.
C20_Witness ==
    /\ pc = "done"
    /\ args.no_reset /\ ~args.reset
    /\ ~should_reset
    /\ disk0.exists /\ disk0.entries # <<>>
    /\ io.cleared = 0
    /\ io.saves = 1
    /\ Len(disk.entries) > Len(disk0.entries)
    /\ SubSeq(disk.entries, 1, Len(disk0.entries)) = disk0.entries

\* C21: with neither flag the run stays in the prompt until a line is read
\* that, without the white space around it and in lower case, is one of the
\* tokens: it answers RESET only for 1, r, reset and UPDATE only for 2, u,
\* update, and for every other line it asks again having changed nothing but
\* its output: no deletion, no load, no save, and the next line is judged as
\* the first was.
C21_PromptLoopsUntilToken ==
    [][ LET Letters == {<<"R", "r">>, <<"E", "e">>, <<"S", "s">>,
                        <<"T", "t">>, <<"U", "u">>, <<"P", "p">>,
                        <<"D", "d">>, <<"A", "a">>}
            Blank(c) == c \in {" ", "\t", "\n", "\r", "\f"}
            Char(s, n) == SubSeq(s, n, n)
            Same(c, d) == c = d \/ <<c, d>> \in Letters
            \* line is token with white space around it, in any case
            Reads(line, token) ==
                \E from \in 1..(Len(line) + 1) :
                    /\ from + Len(token) - 1 <= Len(line)
                    /\ \A n \in 1..Len(token) :
                          Same(Char(line, from + n - 1), Char(token, n))
                    /\ \A n \in 1..(from - 1) : Blank(Char(line, n))
                    /\ \A n \in (from + Len(token))..Len(line) :
                          Blank(Char(line, n))
            IsReset == \E token \in {"1", "r", "reset"} : Reads(typed, token)
            IsUpdate == \E token \in {"2", "u", "update"} : Reads(typed, token)
            NoWork == /\ disk' = disk /\ db' = db /\ io' = io
                      /\ documents' = documents /\ run_chunks' = run_chunks
                      /\ current_batch_chunks' = current_batch_chunks
        IN  /\ (~args.reset /\ ~args.no_reset /\ pc = "main")
                  => pc' \in {"prompt", "interrupted"} /\ NoWork
            /\ pc = "prompt"
                  => /\ pc' \in {"choice", "interrupted"}
                     /\ NoWork /\ should_reset' = should_reset
            /\ (pc = "choice" /\ pc' # "interrupted")
                  => /\ NoWork
                     /\ IsReset => pc' = "decided" /\ should_reset'
                     /\ IsUpdate => pc' = "decided" /\ ~should_reset'
                     /\ (~IsReset /\ ~IsUpdate)
                           => /\ pc' = "prompt"
                              /\ should_reset' = should_reset
                              /\ exit_code' = exit_code ]_vars

\* C21 witness: a line that is no token was refused, and the run is now
\* judging " R ", which it will take for RESET, with the index untouched.
C21_Witness ==
    /\ pc = "choice"
    /\ typed = " R "
    /\ <<"invalid choice", "prompt">> \in log
    /\ ~should_reset
    /\ disk = disk0 /\ disk.exists
    /\ io = NoCalls

\* C22: with --memory-limit 0 no flush inside the loop is due to the memory
\* check: whenever one is made there, the pending list has at least
\* batch_size chunks, whatever the resident memory is.
C22_NoMemoryFlushWithoutLimit ==
    [][ ( /\ UseOptimized(args)
          /\ args.memory_limit = 0
          /\ pc = "check"
          /\ io'.embeds # io.embeds )
        => Len(current_batch_chunks) >= args.batch_size ]_vars

\* C22 witness: with --memory-limit 0 and --batch-size 2 a PDF left one chunk
\* pending while the resident memory was 9000 MB, and the loop has moved on
\* without a flush.
C22_Witness ==
    /\ pc = "loop"
    /\ UseOptimized(args)
    /\ args.memory_limit = 0 /\ args.batch_size = 2
    /\ env.has_psutil
    /\ fileno = 2 /\ files[1].kind = "pdf"
    /\ memory_mb = 9000
    /\ Len(current_batch_chunks) = 1
    /\ io.embeds = 0

\* C23: calculate_chunk_ids gives no two chunks of its argument the same id,
\* in whatever order the chunks come.
C23_ChunkIdsUnique ==
    pc = "ids_returned" =>
        \A a, b \in 1..Len(chunks_with_ids) :
            a # b => chunks_with_ids[a].id # chunks_with_ids[b].id

\* C24: the TUI never has two pipeline invocations running at the same time
\* against the index path: while a thread runs the ingestion, no other
\* thread runs an ingestion, a clear or a query.
C24_OnePipelineAtATime ==
    \A t \in Alive : threads[t].target = "run_populate" => Alive = {t}

\* C25: a run in which no collaborator fails saves the same index whichever
\* mode it runs in: the entries it started from (none after a RESET) together
\* with the run's chunks, each with the id that one calculate_chunk_ids over
\* all the run's chunks in order gives it, which is what the full-batch mode
\* computes; and no index where there was none and the run has no chunk.
\* This holds for every batch size and every memory reading.
C25_BatchedSavesWhatFullBatchSaves ==
    LET NoFailure ==
            /\ io.load_failures = 0
            /\ \A entry \in log :
                  entry[1] \in {"invalid choice", "info", "warning"}
        Plain(seq) ==
            [j \in 1..Len(seq) |->
                [source |-> seq[j].source, page |-> seq[j].page,
                 text |-> seq[j].text]]
        base == IF should_reset THEN <<>> ELSE disk0.entries
        full_batch == base \o calculate_chunk_ids(Plain(run_chunks))
        Occurs(e, seq) == Cardinality({j \in 1..Len(seq) : seq[j] = e})
        Elems(seq) == {seq[j] : j \in 1..Len(seq)}
    IN  (pc = "done" /\ args.batch_size >= 1 /\ NoFailure) =>
           /\ \A e \in Elems(disk.entries) \cup Elems(full_batch) :
                 Occurs(e, disk.entries) = Occurs(e, full_batch)
           /\ disk.exists
                 = ((disk0.exists /\ ~should_reset) \/ run_chunks # <<>>)

\* C25 witness: a batched UPDATE run over a two-page PDF and a second PDF
\* flushed twice or more without a failure and saved the old entry and its
\* four chunks.
C25_Witness ==
    /\ pc = "done"
    /\ UseOptimized(args)
    /\ ~should_reset
    /\ disk0.entries = <<OldEntry>>
    /\ files = <<FileA, FileB>>
    /\ io.load_failures = 0
    /\ \A entry \in log : entry[1] \in {"invalid choice", "info"}
    /\ io.flushes >= 2
    /\ Len(run_chunks) = 4
    /\ Len(disk.entries) = 5
    /\ disk.entries[5].id = "b.pdf:0:1"

\* C26: in full-batch ingestion, when the existing index loaded, every entry
\* of it is still in the index the run saved, also when embedding the new
\* chunks or merging failed after the load.
C26_LoadedEntriesSurvive ==
    LET Occurs(e, seq) == Cardinality({j \in 1..Len(seq) : seq[j] = e})
    IN  (/\ pc = "done"
         /\ ~UseOptimized(args)
         /\ io.index_loads >= 1
         /\ io.load_failures = 0
         /\ io.saves >= 1) =>
           \A j \in 1..Len(disk0.entries) :
              Occurs(disk0.entries[j], disk.entries)
                 >= Occurs(disk0.entries[j], disk0.entries)

\* C27: in batched ingestion a flush that fails inside the loop leaves the
\* pending list as it was and the run goes on with the next file; when the
\* run then ends without another kind of failure, every chunk of every
\* loaded document is in the saved index exactly once (next to the entries
\* of the loaded index).
C27_FailedFlushKeepsPending ==
    [][LET Occurs(e, seq) == Cardinality({j \in 1..Len(seq) : seq[j] = e})
           base == IF should_reset THEN <<>> ELSE disk0.entries
           Saved ==
               (/\ pc = "done"
                /\ UseOptimized(args)
                /\ io.embeds > io.flushes
                /\ io.load_failures = 0) =>
                  /\ disk.exists
                  /\ Len(disk.entries) = Len(base) + Len(run_chunks)
                  /\ \A j \in 1..Len(run_chunks) :
                        Occurs(run_chunks[j], disk.entries)
                           = Occurs(run_chunks[j], base)
                                + Occurs(run_chunks[j], run_chunks)
           FailingFlush ==
               /\ pc = "check"
               /\ io'.embeds = io.embeds + 1
               /\ io'.flushes = io.flushes
           Handled ==
               FailingFlush =>
                  /\ current_batch_chunks' = current_batch_chunks
                  /\ current_batch_chunks # <<>>
                  /\ pc' = "loop"
                  /\ fileno' = fileno + 1
                  /\ <<"error processing", files[fileno].name>> \in log'
                  /\ UNCHANGED <<db, disk, run_chunks>>
       IN  Handled /\ Saved']_vars

\* A run in which a flush failed inside the loop and a later flush embedded
\* the chunks it had left pending.
C27_Witness ==
    /\ pc = "done"
    /\ UseOptimized(args)
    /\ io.embeds > io.flushes
    /\ io.load_failures = 0
    /\ io.flushes >= 1
    /\ io.saves = 1
    /\ Len(run_chunks) >= 2
    /\ ~should_reset
    /\ disk0.entries # <<>>
    /\ disk.entries = disk0.entries \o run_chunks

C29_ResetDeletesBeforeAnyWork ==
    /\ (should_reset /\ disk0.exists /\ io.cleared = 0) =>
          /\ io.doc_loads = 0
          /\ io.embeds = 0
          /\ io.index_loads = 0
          /\ pc \in {"decided", "interrupted"}
    /\ (should_reset /\ io.saves = 0
          /\ pc \notin {"main", "prompt", "choice", "decided", "interrupted"}) =>
          /\ disk = NoIndex
          /\ io.cleared = (IF disk0.exists THEN 1 ELSE 0)
    /\ (io.cleared = 1 /\ io.saves = 0) => disk = NoIndex

\* A RESET run over an existing index that failed while embedding: the
\* previous entries are gone and nothing was saved.
C29_Witness ==
    /\ pc = "crashed"
    /\ should_reset
    /\ disk0.entries # <<>>
    /\ io.cleared = 1
    /\ io.embeds >= 1
    /\ io.saves = 0
    /\ disk = NoIndex

\* C30: a query never changes the persisted index: during query_rag and
\* after it has returned, with any outcome, the index on disk is the one
\* that was there before the call.
C30_QueryLeavesIndexAlone ==
    pc \in {"query_rag", "load_index", "search", "generate",
            "query_returned", "query_raised"} =>
       /\ disk = disk0
       /\ io = NoCalls

\* A query that loaded an index with entries, searched it and was answered:
\* the disk is as it was.
C30_Witness ==
    /\ pc = "query_returned"
    /\ ~response_data.none
    /\ calls = [load |-> 1, search |-> 1, invoke |-> 1]
    /\ disk.entries # <<>>
    /\ disk = disk0

====
